---- MODULE Spec2Model ----
(***************************************************************************)
(* Model of user-data-log/userdatalog_gps_to_kml.py: the two-pass          *)
(* conversion of a SkyView user data log (CSV) into one KML document per   *)
(* recording session.                                                      *)
(*                                                                         *)
(* Pass 1 (get_session_list) scans the rows and records the row indices    *)
(* at which the session time goes backwards.  Pass 2                       *)
(* (convert_userdatalog_csv_to_kml) scans the rows again, opens a document *)
(* at each boundary, appends one coordinate line per accepted row, closes  *)
(* the document before the next boundary and deletes it when it is empty.  *)
(*                                                                         *)
(* CSV field values are text.  A text value is modelled as a TLA+ string;  *)
(* float() and int() are modelled by lookup tables that are defined only   *)
(* on the numerals Python would parse, so a parse can fail.  Floating      *)
(* point values are represented in tenths (float("1.5") is 15).            *)
(***************************************************************************)
EXTENDS Integers, Sequences, FiniteSets, TLC

\* ------------------------------------------------------------------ bounds
\* longest input log (number of CSV data rows) that is enumerated in full
MaxRows == 3

\* ------------------------------------------------------- program constants
\* METERS_PER_FOOT = 0.3048, in units of 1e-4 metre per foot
METERS_PER_FOOT == 3048
\* cfg.min_fix_quality and cfg.min_satellites as set by main()
min_fix_quality == 1
min_satellites == 4
\* last_session_time = -1.0 before the first row, in tenths
InitialLastSessionTime == -10

\* -------------------------------------------------------- text and parsing
\* Python's None where a text is expected (error, kml_string)
None == "None"
\* kml_file = None and kml_output_filename = '': no session number is held
NoFile == 0

\* the texts int() accepts, with their values
IntTable ==
    ("0" :> 0) @@ ("1" :> 1) @@ ("2" :> 2) @@ ("3" :> 3) @@ ("4" :> 4) @@
    ("5" :> 5) @@ ("6" :> 6) @@ ("7" :> 7) @@ ("8" :> 8) @@ ("9" :> 9) @@
    ("100" :> 100)

\* the texts float() accepts, with their values in tenths: every text int()
\* accepts, and decimal fractions, which int() refuses
FloatTable ==
    [s \in DOMAIN IntTable |-> 10 * IntTable[s]] @@ ("1.5" :> 15)

IntParses(s) == s \in DOMAIN IntTable
FloatParses(s) == s \in DOMAIN FloatTable
\* int(s) and float(s) where they do not raise ValueError
IntOf(s) == IntTable[s]
FloatOf(s) == FloatTable[s]

\* Python truthiness of a str: `not s` is true exactly for the empty string
Blank(s) == s = ""

\* ---------------------------------------------------------------- CSV rows
\* One csv.DictReader row, restricted to the columns the program reads:
\*   session_time  'Session Time'          fix_quality  'GPS Fix Quality'
\*   num_sats      'Number of Satellites'  date_and_time 'GPS Date & Time'
\*   lat 'Latitude (deg)'   lon 'Longitude (deg)'   alt 'GPS Altitude (feet)'
Row(st, fq, ns, dt, la, lo, al) ==
    [session_time |-> st, fix_quality |-> fq, num_sats |-> ns,
     date_and_time |-> dt, lat |-> la, lon |-> lo, alt |-> al]

\* what a call returns or raises: None, a str, or an exception
ReturnNone == [tag |-> "None", value |-> None]
ReturnStr(v) == [tag |-> "str", value |-> v]
Raise(e) == [tag |-> "raise", value |-> e]

\* kml_string: '{lon},{lat},{alt_meters}\r\n', kept as its three parts, the
\* altitude in units of 1e-5 metre (tenths of a foot times 3048)
KmlString(lon, lat, alt_meters) == <<lon, lat, alt_meters>>

\* variant: the thresholds are joined by `and`: a row is rejected for low
\* quality only when fix quality and satellite count are both below minimum
generate_kml_coordinate_string_BothLow(csv_row) ==
    LET fix_quality == csv_row.fix_quality
        num_sats == csv_row.num_sats
        date_and_time == csv_row.date_and_time
        lat == csv_row.lat
        lon == csv_row.lon
        alt == csv_row.alt
    IN  IF Blank(fix_quality) \/ Blank(num_sats) \/ Blank(date_and_time)
          THEN ReturnNone
        ELSE IF ~IntParses(fix_quality) THEN Raise("ValueError")
        ELSE IF IntOf(fix_quality) < min_fix_quality /\ ~IntParses(num_sats)
          THEN Raise("ValueError")
        ELSE IF IntOf(fix_quality) < min_fix_quality /\ IntOf(num_sats) < min_satellites
          THEN ReturnNone
        ELSE IF Blank(lat) \/ Blank(lon) \/ Blank(alt) THEN ReturnNone
        ELSE IF ~FloatParses(alt) THEN Raise("ValueError")
        ELSE ReturnStr(KmlString(lon, lat, FloatOf(alt) * METERS_PER_FOOT))

\* variant: latitude and longitude are not checked for blanks
generate_kml_coordinate_string_NoLatLonCheck(csv_row) ==
    LET fix_quality == csv_row.fix_quality
        num_sats == csv_row.num_sats
        date_and_time == csv_row.date_and_time
        lat == csv_row.lat
        lon == csv_row.lon
        alt == csv_row.alt
    IN  IF Blank(fix_quality) \/ Blank(num_sats) \/ Blank(date_and_time)
          THEN ReturnNone
        ELSE IF ~IntParses(fix_quality) THEN Raise("ValueError")
        ELSE IF IntOf(fix_quality) < min_fix_quality THEN ReturnNone
        ELSE IF ~IntParses(num_sats) THEN Raise("ValueError")
        ELSE IF IntOf(num_sats) < min_satellites THEN ReturnNone
        ELSE IF Blank(alt) THEN ReturnNone
        ELSE IF ~FloatParses(alt) THEN Raise("ValueError")
        ELSE ReturnStr(KmlString(lon, lat, FloatOf(alt) * METERS_PER_FOOT))

\* variant: both int() conversions are made before either threshold is
\* compared (no short circuit)
generate_kml_coordinate_string_EagerInt(csv_row) ==
    LET fix_quality == csv_row.fix_quality
        num_sats == csv_row.num_sats
        date_and_time == csv_row.date_and_time
        lat == csv_row.lat
        lon == csv_row.lon
        alt == csv_row.alt
    IN  IF Blank(fix_quality) \/ Blank(num_sats) \/ Blank(date_and_time)
          THEN ReturnNone
        ELSE IF ~IntParses(fix_quality) \/ ~IntParses(num_sats) THEN Raise("ValueError")
        ELSE IF IntOf(fix_quality) < min_fix_quality THEN ReturnNone
        ELSE IF IntOf(num_sats) < min_satellites THEN ReturnNone
        ELSE IF Blank(lat) \/ Blank(lon) \/ Blank(alt) THEN ReturnNone
        ELSE IF ~FloatParses(alt) THEN Raise("ValueError")
        ELSE ReturnStr(KmlString(lon, lat, FloatOf(alt) * METERS_PER_FOOT))

\* generate_kml_coordinate_string(cfg, csv_row), in evaluation order; `or`
\* short-circuits, so int(num_sats) is evaluated only when the fix quality
\* passes its threshold
generate_kml_coordinate_string(csv_row) ==
    LET fix_quality == csv_row.fix_quality
        num_sats == csv_row.num_sats
        date_and_time == csv_row.date_and_time
        lat == csv_row.lat
        lon == csv_row.lon
        alt == csv_row.alt
    IN  IF Blank(fix_quality) \/ Blank(num_sats) \/ Blank(date_and_time)
          THEN ReturnNone
        ELSE IF ~IntParses(fix_quality) THEN Raise("ValueError")
        ELSE IF IntOf(fix_quality) < min_fix_quality THEN ReturnNone
        ELSE IF ~IntParses(num_sats) THEN Raise("ValueError")
        ELSE IF IntOf(num_sats) < min_satellites THEN ReturnNone
        ELSE IF Blank(lat) \/ Blank(lon) \/ Blank(alt) THEN ReturnNone
        ELSE IF ~FloatParses(alt) THEN Raise("ValueError")
        ELSE ReturnStr(KmlString(lon, lat, FloatOf(alt) * METERS_PER_FOOT))

\* ------------------------------------------------------------------ inputs
\* GPS columns of the rows used in the multi-row logs: two rows that are
\* accepted with different records, one rejected for low fix quality, one
\* with a malformed altitude
GpsGoodA == [fq |-> "1", ns |-> "4", dt |-> "t", la |-> "a1", lo |-> "o1", al |-> "100"]
GpsGoodB == [fq |-> "2", ns |-> "9", dt |-> "t", la |-> "a2", lo |-> "o2", al |-> "1.5"]
GpsLowFix == [fq |-> "0", ns |-> "4", dt |-> "t", la |-> "a1", lo |-> "o1", al |-> "100"]
GpsBadAlt == [fq |-> "1", ns |-> "4", dt |-> "t", la |-> "a1", lo |-> "o1", al |-> "x"]
GpsProfiles == {GpsGoodA, GpsGoodB, GpsLowFix, GpsBadAlt}

\* session-time texts of the multi-row logs: blank and three numerals
LogSessionTimes == {"", "0", "1", "2"}

WithTime(st, g) == Row(st, g.fq, g.ns, g.dt, g.la, g.lo, g.al)

LogRows == {WithTime(st, g) : st \in LogSessionTimes, g \in GpsProfiles}

\* every log of at most MaxRows rows over LogRows
BoundedLogs == UNION {[1..n -> LogRows] : n \in 0..MaxRows}

\* every one-row log over the full field alphabet: blank, non-numeric,
\* integer and fractional texts in each numeric column
FixQualityTexts == {"", "x", "0", "1", "1.5"}
NumSatsTexts == {"", "x", "3", "4", "1.5"}
AltTexts == {"", "x", "100", "1.5"}
SessionTimeTexts == {"", "x", "0", "1.5"}
OneRowLogs ==
    {<<Row(st, fq, ns, dt, la, lo, al)>> :
        st \in SessionTimeTexts, fq \in FixQualityTexts, ns \in NumSatsTexts,
        dt \in {"", "t"}, la \in {"", "a1"}, lo \in {"", "o1"}, al \in AltTexts}

\* the session times of the worked example: 8 rows, boundaries 0, 3, 6, 8
ExampleTimes == <<"1", "2", "3", "0", "1", "5", "2", "9">>
ExampleLog == [i \in 1..Len(ExampleTimes) |-> WithTime(ExampleTimes[i], GpsGoodA)]

\* the end-to-end scenario: 10 rows, sessions starting at rows 0 and 5, the
\* rows 1 and 3 of the first session rejected, every other row accepted
ScenarioTimes == <<"0", "1", "2", "3", "4", "0", "1", "2", "3", "4">>
ScenarioRejected == {2, 4}
ScenarioLog ==
    [i \in 1..Len(ScenarioTimes) |->
        WithTime(ScenarioTimes[i],
                 IF i \in ScenarioRejected THEN GpsLowFix
                 ELSE IF i % 2 = 1 THEN GpsGoodA ELSE GpsGoodB)]

Logs == BoundedLogs \cup OneRowLogs \cup {ExampleLog, ScenarioLog}

\* ------------------------------------------------------------------- state
VARIABLES
    csv_input,      \* the rows of cfg.csv_input_filename, in file order
    pc,             \* position of the run: "index", "convert", "validate",
                    \* "close_check", "closing", "discard_check", "done",
                    \* "aborted"
    error,          \* the exception that ended the run and where it was raised
    reader,         \* rows the current csv.DictReader has yielded so far
    csv_row_index,  \* the csv_row_index local of the pass that is running
    last_session_time,              \* get_session_list, in tenths
    session_list,                   \* built by pass 1, read by pass 2
    session_index,
    sessions_written,
    sessions_detected,
    empty_session_count,
    csv_rows_rejected,
    kml_rows_written_this_session,
    kml_rows_written_total,
    kml_file,             \* session number of the handle held, or NoFile
    kml_output_filename,  \* session number in the filename held, or NoFile
    kml_string,           \* what the last validator call returned
    files,                \* output directory: session number -> document
    open_handles,         \* session numbers whose file handle is open
    open_calls            \* session numbers passed to open_kml_session_file

vars == <<csv_input, pc, error, reader, csv_row_index, last_session_time,
          session_list, session_index, sessions_written, sessions_detected,
          empty_session_count, csv_rows_rejected,
          kml_rows_written_this_session, kml_rows_written_total, kml_file,
          kml_output_filename, kml_string, files, open_handles, open_calls>>

indexer_vars == <<last_session_time, session_list>>
counter_vars == <<sessions_written, sessions_detected, empty_session_count,
                  csv_rows_rejected, kml_rows_written_this_session,
                  kml_rows_written_total>>
writer_vars == <<kml_file, kml_output_filename, files, open_handles, open_calls>>

\* Python list subscripting, 0-based: list[i] raises IndexError outside
HasIndex(list, i) == i \in 0..(Len(list) - 1)
At(list, i) == list[i + 1]

\* the row the current loop iteration holds (csv_row)
csv_row == csv_input[reader]

\* no exception has been raised
NoError == [type |-> None, in |-> None]

\* an uncaught exception of type e, raised in function f, leaves
\* convert_userdatalog_csv_to_kml: the only resource a `with` releases is the
\* CSV file, nothing else is touched
Abort(e, f) == /\ pc' = "aborted"
               /\ error' = [type |-> e, in |-> f]

Init ==
    /\ csv_input \in Logs
    /\ pc = "index"
    /\ error = NoError
    /\ reader = 0
    /\ csv_row_index = 0
    /\ last_session_time = InitialLastSessionTime
    /\ session_list = <<>>
    /\ session_index = 0
    /\ sessions_written = 0
    /\ sessions_detected = 0
    /\ empty_session_count = 0
    /\ csv_rows_rejected = 0
    /\ kml_rows_written_this_session = 0
    /\ kml_rows_written_total = 0
    /\ kml_file = NoFile
    /\ kml_output_filename = NoFile
    /\ kml_string = ReturnNone
    /\ files = <<>>
    /\ open_handles = {}
    /\ open_calls = <<>>

\* ------------------------------------------------- pass 1: get_session_list
\* a row with a blank session time: `continue`, csv_row_index is not advanced
IndexSkip ==
    /\ pc = "index"
    /\ reader < Len(csv_input)
    /\ Blank(csv_input[reader + 1].session_time)
    /\ reader' = reader + 1
    /\ UNCHANGED <<csv_input, pc, error, csv_row_index, indexer_vars,
                   session_index, counter_vars, writer_vars, kml_string>>

\* variant: a repeated session time also starts a session
StartsSession_OnEqualTime(row_index, session_time, last_time) ==
    (row_index = 0) \/ (session_time <= last_time)

\* does a considered row start a session?
StartsSession(row_index, session_time, last_time) ==
    (row_index = 0) \/ (session_time < last_time)

\* a row with a session time that float() parses
IndexRow ==
    /\ pc = "index"
    /\ reader < Len(csv_input)
    /\ LET text == csv_input[reader + 1].session_time
       IN  /\ ~Blank(text)
           /\ FloatParses(text)
           /\ LET session_time == FloatOf(text)
              IN  /\ session_list' =
                        IF StartsSession(csv_row_index, session_time, last_session_time)
                        THEN Append(session_list, csv_row_index)
                        ELSE session_list
                  /\ last_session_time' = session_time
    /\ csv_row_index' = csv_row_index + 1
    /\ reader' = reader + 1
    /\ UNCHANGED <<csv_input, pc, error, session_index, counter_vars,
                   writer_vars, kml_string>>

\* a row whose session time float() refuses: ValueError leaves the run
IndexAbort ==
    /\ pc = "index"
    /\ reader < Len(csv_input)
    /\ LET text == csv_input[reader + 1].session_time
       IN  ~Blank(text) /\ ~FloatParses(text)
    /\ reader' = reader + 1
    /\ Abort("ValueError", "get_session_list")
    /\ UNCHANGED <<csv_input, csv_row_index, indexer_vars, session_index,
                   counter_vars, writer_vars, kml_string>>

\* variant: the final entry is left out
SessionListReturned_NoFinalEntry(starts, row_count) == starts

\* the list get_session_list returns: the starts and the final entry
SessionListReturned(starts, row_count) == Append(starts, row_count)

\* end of pass 1: the final entry is appended and the list returned; the
\* driver returns early on an empty list, else sets up its counters and
\* opens the CSV file again
IndexDone ==
    /\ pc = "index"
    /\ reader = Len(csv_input)
    /\ session_list' = SessionListReturned(session_list, csv_row_index)
    /\ IF session_list' = <<>>
       THEN /\ pc' = "done"
            /\ UNCHANGED <<reader, csv_row_index, sessions_detected>>
       ELSE /\ pc' = "convert"
            /\ reader' = 0
            /\ csv_row_index' = 0
            /\ sessions_detected' = Len(session_list') - 1
    /\ UNCHANGED <<csv_input, error, last_session_time, session_index,
                   sessions_written, empty_session_count, csv_rows_rejected,
                   kml_rows_written_this_session, kml_rows_written_total,
                   writer_vars, kml_string>>

\* ------------------------------------------------------ the session writer
\* a document: the header carries the session number ('S' + zfill(3)), then
\* the coordinate lines, then the footer
NewDocument(session_number) ==
    [header |-> session_number, lines |-> <<>>, footer |-> FALSE]

\* open(kml_output_filename, 'w') creates or truncates; the header is written
FilesAfterOpen(fs, session_number) ==
    (session_number :> NewDocument(session_number)) @@ fs

\* variant: the line is put before the lines already written
FilesAfterWrite_Prepended(fs, handle, line) ==
    [fs EXCEPT ![handle].lines = <<line>> \o @]

\* kml_file.write(kml_string)
FilesAfterWrite(fs, handle, line) ==
    [fs EXCEPT ![handle].lines = Append(@, line)]

\* close_session_file: kml_file.write(footer)
FilesAfterFooter(fs, handle) ==
    [fs EXCEPT ![handle].footer = TRUE]

\* variant: the file is left in place
FilesAfterRemove_Kept(fs, filename) == fs

\* delete_session_file: os.remove(kml_output_filename)
FilesAfterRemove(fs, filename) ==
    [n \in (DOMAIN fs) \ {filename} |-> fs[n]]

\* --------------------------- pass 2: convert_userdatalog_csv_to_kml, the loop
\* `session_list[session_index] == csv_row_index`
AtSessionStart(list, index, row_index) == At(list, index) = row_index

\* variant: the end test compares with the current row index
AtSessionEnd_NoPlusOne(list, index, row_index) == At(list, index + 1) = row_index

\* `session_list[session_index+1] == csv_row_index+1`
AtSessionEnd(list, index, row_index) == At(list, index + 1) = row_index + 1

\* variant: the document is numbered by the sessions written so far
StartSession_NumberedByWritten ==
    /\ pc = "convert"
    /\ reader < Len(csv_input)
    /\ HasIndex(session_list, session_index)
    /\ AtSessionStart(session_list, session_index, csv_row_index)
    /\ reader' = reader + 1
    /\ LET session_number == sessions_written + 1
       IN  /\ files' = FilesAfterOpen(files, session_number)
           /\ open_handles' = open_handles \cup {session_number}
           /\ open_calls' = Append(open_calls, session_number)
           /\ kml_file' = session_number
           /\ kml_output_filename' = session_number
    /\ pc' = "validate"
    /\ UNCHANGED <<csv_input, error, csv_row_index, indexer_vars,
                   session_index, counter_vars, kml_string>>

\* the loop takes the next row, which is at the start of a new session:
\* open_kml_session_file(cfg, session_index + 1)
StartSession ==
    /\ pc = "convert"
    /\ reader < Len(csv_input)
    /\ HasIndex(session_list, session_index)
    /\ AtSessionStart(session_list, session_index, csv_row_index)
    /\ reader' = reader + 1
    /\ LET session_number == session_index + 1
       IN  /\ files' = FilesAfterOpen(files, session_number)
           /\ open_handles' = open_handles \cup {session_number}
           /\ open_calls' = Append(open_calls, session_number)
           /\ kml_file' = session_number
           /\ kml_output_filename' = session_number
    /\ pc' = "validate"
    /\ UNCHANGED <<csv_input, error, csv_row_index, indexer_vars,
                   session_index, counter_vars, kml_string>>

\* the loop takes the next row, which is not at the start of a session
ContinueSession ==
    /\ pc = "convert"
    /\ reader < Len(csv_input)
    /\ reader' = reader + 1
    /\ IF HasIndex(session_list, session_index)
       THEN /\ ~AtSessionStart(session_list, session_index, csv_row_index)
            /\ pc' = "validate"
            /\ error' = error
       ELSE Abort("IndexError", "convert_userdatalog_csv_to_kml")
    /\ UNCHANGED <<csv_input, csv_row_index, indexer_vars, session_index,
                   counter_vars, writer_vars, kml_string>>

\* generate_kml_coordinate_string returned a record: it is written to the
\* handle held, which fails on None and on a closed handle
AcceptRow ==
    /\ pc = "validate"
    /\ LET result == generate_kml_coordinate_string(csv_row)
       IN  /\ result.tag = "str"
           /\ kml_string' = result
    /\ IF kml_file = NoFile
       THEN /\ Abort("AttributeError", "convert_userdatalog_csv_to_kml")
            /\ UNCHANGED <<files, kml_rows_written_this_session,
                           kml_rows_written_total>>
       ELSE IF kml_file \notin open_handles
       THEN /\ Abort("ValueError", "convert_userdatalog_csv_to_kml")
            /\ UNCHANGED <<files, kml_rows_written_this_session,
                           kml_rows_written_total>>
       ELSE /\ files' = FilesAfterWrite(files, kml_file, kml_string'.value)
            /\ kml_rows_written_this_session' = kml_rows_written_this_session + 1
            /\ kml_rows_written_total' = kml_rows_written_total + 1
            /\ pc' = "close_check"
            /\ error' = error
    /\ UNCHANGED <<csv_input, reader, csv_row_index, indexer_vars,
                   session_index, sessions_written, sessions_detected,
                   empty_session_count, csv_rows_rejected, kml_file,
                   kml_output_filename, open_handles, open_calls>>

\* variant: a rejected row is skipped without being counted
RejectRow_Uncounted ==
    /\ pc = "validate"
    /\ generate_kml_coordinate_string(csv_row) = ReturnNone
    /\ kml_string' = ReturnNone
    /\ pc' = "close_check"
    /\ UNCHANGED <<csv_input, error, reader, csv_row_index, indexer_vars,
                   session_index, counter_vars, writer_vars>>

\* generate_kml_coordinate_string returned None: the row is counted rejected
RejectRow ==
    /\ pc = "validate"
    /\ generate_kml_coordinate_string(csv_row) = ReturnNone
    /\ kml_string' = ReturnNone
    /\ csv_rows_rejected' = csv_rows_rejected + 1
    /\ pc' = "close_check"
    /\ UNCHANGED <<csv_input, error, reader, csv_row_index, indexer_vars,
                   session_index, sessions_written, sessions_detected,
                   empty_session_count, kml_rows_written_this_session,
                   kml_rows_written_total, writer_vars>>

\* generate_kml_coordinate_string raised: nothing catches it
ValidateAbort ==
    /\ pc = "validate"
    /\ LET result == generate_kml_coordinate_string(csv_row)
       IN  /\ result.tag = "raise"
           /\ Abort(result.value, "generate_kml_coordinate_string")
    /\ UNCHANGED <<csv_input, reader, csv_row_index, indexer_vars,
                   session_index, counter_vars, writer_vars, kml_string>>

\* variant: the footer is written but the handle is not closed
HandlesAfterClose_LeftOpen(handles, handle) == handles

\* kml_file.close()
HandlesAfterClose(handles, handle) == handles \ {handle}

\* the next row starts a session: close_session_file(cfg, kml_file) is
\* called and writes the footer to the handle held
CloseSession ==
    /\ pc = "close_check"
    /\ HasIndex(session_list, session_index + 1)
    /\ AtSessionEnd(session_list, session_index, csv_row_index)
    /\ IF kml_file = NoFile
       THEN /\ Abort("AttributeError", "close_session_file")
            /\ UNCHANGED files
       ELSE IF kml_file \notin open_handles
       THEN /\ Abort("ValueError", "close_session_file")
            /\ UNCHANGED files
       ELSE /\ files' = FilesAfterFooter(files, kml_file)
            /\ pc' = "closing"
            /\ error' = error
    /\ UNCHANGED <<csv_input, reader, csv_row_index, indexer_vars,
                   session_index, counter_vars, kml_file, kml_output_filename,
                   open_handles, open_calls, kml_string>>

\* close_session_file closes the handle and returns; the session is counted
\* written
CloseHandle ==
    /\ pc = "closing"
    /\ open_handles' = HandlesAfterClose(open_handles, kml_file)
    /\ sessions_written' = sessions_written + 1
    /\ pc' = "discard_check"
    /\ UNCHANGED <<csv_input, error, reader, csv_row_index, indexer_vars,
                   session_index, sessions_detected, empty_session_count,
                   csv_rows_rejected, kml_rows_written_this_session,
                   kml_rows_written_total, kml_file, kml_output_filename,
                   files, open_calls, kml_string>>

\* the next row does not start a session
NoClose ==
    /\ pc = "close_check"
    /\ HasIndex(session_list, session_index + 1)
    /\ ~AtSessionEnd(session_list, session_index, csv_row_index)
    /\ csv_row_index' = csv_row_index + 1
    /\ pc' = "convert"
    /\ UNCHANGED <<csv_input, error, reader, indexer_vars, session_index,
                   counter_vars, writer_vars, kml_string>>

\* session_list[session_index+1] is past the end of the list
CloseIndexError ==
    /\ pc = "close_check"
    /\ ~HasIndex(session_list, session_index + 1)
    /\ Abort("IndexError", "convert_userdatalog_csv_to_kml")
    /\ UNCHANGED <<csv_input, reader, csv_row_index, indexer_vars,
                   session_index, counter_vars, writer_vars, kml_string>>

\* variant: every closed session is taken for empty
SessionIsEmpty_Always(rows_written_this_session) == rows_written_this_session >= 0

\* `kml_rows_written_this_session == 0`
SessionIsEmpty(rows_written_this_session) == rows_written_this_session = 0

\* the session just closed wrote nothing: its file is deleted and it is
\* taken out of sessions_written again
DiscardSession ==
    /\ pc = "discard_check"
    /\ SessionIsEmpty(kml_rows_written_this_session)
    /\ empty_session_count' = empty_session_count + 1
    /\ IF kml_output_filename \in DOMAIN files
       THEN /\ files' = FilesAfterRemove(files, kml_output_filename)
            /\ sessions_written' = sessions_written - 1
            /\ session_index' = session_index + 1
            /\ kml_rows_written_this_session' = 0
            /\ csv_row_index' = csv_row_index + 1
            /\ pc' = "convert"
            /\ error' = error
       ELSE /\ Abort("FileNotFoundError", "delete_session_file")
            /\ UNCHANGED <<files, sessions_written, session_index,
                           kml_rows_written_this_session, csv_row_index>>
    /\ UNCHANGED <<csv_input, reader, indexer_vars, sessions_detected,
                   csv_rows_rejected, kml_rows_written_total, kml_file,
                   kml_output_filename, open_handles, open_calls, kml_string>>

\* the session just closed wrote at least one line: its file is kept
KeepSession ==
    /\ pc = "discard_check"
    /\ ~SessionIsEmpty(kml_rows_written_this_session)
    /\ session_index' = session_index + 1
    /\ kml_rows_written_this_session' = 0
    /\ csv_row_index' = csv_row_index + 1
    /\ pc' = "convert"
    /\ UNCHANGED <<csv_input, error, reader, indexer_vars, sessions_written,
                   sessions_detected, empty_session_count, csv_rows_rejected,
                   kml_rows_written_total, writer_vars, kml_string>>

\* --------------------------------------------------- pass 2: the statistics
\* the divisors of the two percentages
ZeroDivisor(rows_read, detected) == rows_read = 0 \/ detected = 0

\* end of input: both percentages are computed and the totals printed
Report ==
    /\ pc = "convert"
    /\ reader = Len(csv_input)
    /\ ~ZeroDivisor(csv_row_index, sessions_detected)
    /\ pc' = "done"
    /\ UNCHANGED <<csv_input, error, reader, csv_row_index, indexer_vars,
                   session_index, counter_vars, writer_vars, kml_string>>

\* end of input with csv_row_index or sessions_detected equal to 0: the
\* division raises ZeroDivisionError before anything is printed
ReportZeroDivision ==
    /\ pc = "convert"
    /\ reader = Len(csv_input)
    /\ ZeroDivisor(csv_row_index, sessions_detected)
    /\ Abort("ZeroDivisionError", "convert_userdatalog_csv_to_kml")
    /\ UNCHANGED <<csv_input, reader, csv_row_index, indexer_vars,
                   session_index, counter_vars, writer_vars, kml_string>>

Next ==
    \/ IndexSkip
    \/ IndexRow
    \/ IndexAbort
    \/ IndexDone
    \/ StartSession
    \/ ContinueSession
    \/ AcceptRow
    \/ RejectRow
    \/ ValidateAbort
    \/ CloseSession
    \/ CloseHandle
    \/ NoClose
    \/ CloseIndexError
    \/ DiscardSession
    \/ KeepSession
    \/ Report
    \/ ReportZeroDivision

Spec == Init /\ [][Next]_vars

\* the program is one sequential thread: while a statement can run, it runs
FairSpec == Spec /\ WF_vars(Next)

\* =================================================================== claims
\* get_session_list has returned its list to the driver
IndexReturned ==
    pc \in {"convert", "validate", "close_check", "closing", "discard_check", "done"}
    \/ (pc = "aborted" /\ error.in # "get_session_list")

\* the rows pass 1 considers: those with a non-blank session time
ConsideredRows == SelectSeq(csv_input, LAMBDA r : ~Blank(r.session_time))

\* the session time of considered row i (0-based)
ConsideredTime(i) == FloatOf(ConsideredRows[i + 1].session_time)

\* the considered rows at which time goes backwards, and the first one
ExpectedStarts ==
    {i \in 0..(Len(ConsideredRows) - 1) :
        i = 0 \/ ConsideredTime(i) < ConsideredTime(i - 1)}

\* the entries of session_list but the final one
RecordedStarts == {session_list[k] : k \in 1..(Len(session_list) - 1)}

\* C1: the list get_session_list returns is non-empty and strictly
\* increasing, its last element is the number of rows with a non-blank
\* session time, and it has one element more than there are session starts.
C1_SessionListShape ==
    IndexReturned =>
        /\ Len(session_list) >= 1
        /\ \A k \in 1..(Len(session_list) - 1) : session_list[k] < session_list[k + 1]
        /\ session_list[Len(session_list)] = Len(ConsideredRows)
        /\ Len(session_list) - 1 = Cardinality(ExpectedStarts)

\* C1 witness: a list of two starts and the final entry, returned for a log
\* that holds a row with a blank session time
C1_Witness ==
    /\ IndexReturned
    /\ Len(session_list) = 3
    /\ Len(ConsideredRows) < Len(csv_input)

\* C2: considered row i is recorded as a session start exactly when it is the
\* first considered row or its time is strictly below the previous considered
\* row's; equal times start nothing, every session is a run of non-decreasing
\* times, and the times 1,2,3,0,1,5,2,9 give the list 0,3,6,8.
C2_StartsWhereTimeGoesBack ==
    IndexReturned =>
        /\ RecordedStarts = ExpectedStarts
        /\ \A i \in 1..(Len(ConsideredRows) - 1) :
              ConsideredTime(i) = ConsideredTime(i - 1) => i \notin RecordedStarts
        /\ \A i \in 1..(Len(ConsideredRows) - 1) :
              i \notin RecordedStarts => ConsideredTime(i - 1) <= ConsideredTime(i)
        /\ csv_input = ExampleLog => session_list = <<0, 3, 6, 8>>

\* C2 witness: the worked example has been indexed
C2_Witness ==
    /\ IndexReturned
    /\ csv_input = ExampleLog
    /\ session_list = <<0, 3, 6, 8>>

\* C2 second case reached: two considered rows with equal times in one session
C2_EqualTimesReached ==
    /\ IndexReturned
    /\ \E i \in 1..(Len(ConsideredRows) - 1) :
          ConsideredTime(i) = ConsideredTime(i - 1) /\ i \notin RecordedStarts

\* the run has ended, by returning or by an exception
Finished == pc \in {"done", "aborted"}

\* every row of the log has a session time
NoBlankSessionTime ==
    \A i \in 1..Len(csv_input) : ~Blank(csv_input[i].session_time)

\* every numeric column of the row is blank or parses as the code parses it
WellTyped(r) ==
    /\ Blank(r.session_time) \/ FloatParses(r.session_time)
    /\ Blank(r.fix_quality) \/ IntParses(r.fix_quality)
    /\ Blank(r.num_sats) \/ IntParses(r.num_sats)
    /\ Blank(r.alt) \/ FloatParses(r.alt)

AllWellTyped == \A i \in 1..Len(csv_input) : WellTyped(csv_input[i])

\* the sessions the indexer detected, by session number
DetectedSessions == 1..(Len(session_list) - 1)

\* the rows whose index lies in [boundary k, boundary k+1), in input order
RowsOfSession(k) == SubSeq(csv_input, session_list[k] + 1, session_list[k + 1])

\* the validator accepts the row
Accepted(r) == generate_kml_coordinate_string(r).tag = "str"

\* the records of the accepted rows of session k, in input order
ExpectedLines(k) ==
    LET accepted == SelectSeq(RowsOfSession(k), Accepted)
    IN  [i \in 1..Len(accepted) |-> generate_kml_coordinate_string(accepted[i]).value]

\* the coordinate lines of session k's document, none when it does not exist
DocumentLines(k) == IF k \in DOMAIN files THEN files[k].lines ELSE <<>>

\* C3: for a log without blank session times and with well-typed numeric
\* columns, after the run the document of session k holds exactly the records
\* of the accepted rows in [boundary k, boundary k+1), in input order, and
\* there is no document but those of the detected sessions.
C3_DocumentHoldsItsSessionRows ==
    (Finished /\ NoBlankSessionTime /\ AllWellTyped) =>
        /\ \A k \in DetectedSessions : DocumentLines(k) = ExpectedLines(k)
        /\ DOMAIN files \subseteq DetectedSessions

\* C3 witness: a finished run of two sessions, the first document with two
\* different records, the second with one
C3_Witness ==
    /\ pc = "done" /\ NoBlankSessionTime /\ AllWellTyped
    /\ Len(session_list) = 3
    /\ Len(DocumentLines(1)) = 2
    /\ DocumentLines(1)[1] # DocumentLines(1)[2]
    /\ Len(DocumentLines(2)) = 1

\* C3 second case reached: a session of three rows, one of them rejected,
\* whose document holds the two different records of the other two
C3_RejectedRowLeftOut ==
    /\ pc = "done" /\ NoBlankSessionTime /\ AllWellTyped
    /\ Len(session_list) = 2
    /\ Len(RowsOfSession(1)) = 3
    /\ Len(DocumentLines(1)) = 2
    /\ DocumentLines(1)[1] # DocumentLines(1)[2]

\* session k has a row the validator accepts
HasAcceptedRow(k) ==
    \E i \in 1..Len(RowsOfSession(k)) : Accepted(RowsOfSession(k)[i])

\* C4: after a completed run a session whose rows were all rejected has no
\* document and is not counted written; a session with an accepted row keeps
\* its closed document and is counted; sessions_written is the number of
\* documents that exist.
C4_EmptySessionsDiscarded ==
    pc = "done" =>
        /\ \A k \in DetectedSessions :
              IF HasAcceptedRow(k)
              THEN k \in DOMAIN files /\ files[k].footer /\ k \notin open_handles
              ELSE k \notin DOMAIN files
        /\ sessions_written = Cardinality({k \in DetectedSessions : HasAcceptedRow(k)})
        /\ sessions_written = Cardinality(DOMAIN files)

\* C4 witness: a completed run with a discarded session and a kept one
C4_Witness ==
    /\ pc = "done"
    /\ \E k \in DetectedSessions : ~HasAcceptedRow(k) /\ k \notin DOMAIN files
    /\ \E k \in DetectedSessions : HasAcceptedRow(k) /\ k \in DOMAIN files
    /\ sessions_written < sessions_detected

\* C5: on a zero-row log the run detects zero sessions, creates no document
\* and finishes without an exception, the zero divisors being guarded.
\* Stated as the claim has it; the code raises ZeroDivisionError instead.
C5_ZeroRowRunFinishes ==
    (csv_input = <<>> /\ Finished) =>
        /\ pc = "done"
        /\ error = NoError
        /\ sessions_detected = 0
        /\ DOMAIN files = {}
        /\ open_calls = <<>>

\* what the code does on a zero-row log: zero sessions, no document, and the
\* run ends in the division of the statistics
C5_ZeroRowRunRaises ==
    (csv_input = <<>> /\ Finished) =>
        /\ pc = "aborted"
        /\ error = [type |-> "ZeroDivisionError", in |-> "convert_userdatalog_csv_to_kml"]
        /\ sessions_detected = 0
        /\ DOMAIN files = {}
        /\ open_calls = <<>>

\* the position in the log (0-based) of considered row i
PositionOfConsidered(i) ==
    CHOOSE p \in 0..(Len(csv_input) - 1) :
        /\ ~Blank(csv_input[p + 1].session_time)
        /\ Cardinality({q \in 1..p : ~Blank(csv_input[q].session_time)}) = i

\* pass 2 numbers the rows by their position in the log: while a row is being
\* processed, csv_row_index is the number of rows read before it
C6_DriverCountsEveryRow ==
    pc \in {"validate", "close_check", "closing", "discard_check"} =>
        csv_row_index = reader - 1

\* C6: a boundary b of get_session_list denotes the row pass 2 numbers b, for
\* every log, blank session times included, so each document starts at the
\* row where the indexer detected the start.  Stated as the claim has it; the
\* indexer does not count blank-time rows and pass 2 does.
C6_SameRowIndexInBothPasses ==
    IndexReturned =>
        \A k \in DetectedSessions : PositionOfConsidered(session_list[k]) = session_list[k]

\* C7: the final entry starts no session: pass 2 opens at most
\* sessions_detected documents, none with a number beyond it, and never
\* subscripts session_list past its end.  Stated as the claim has it; with a
\* blank-time row in the log pass 2 reaches the final entry with rows left.
C7_FinalEntryStartsNoSession ==
    IndexReturned =>
        /\ Len(open_calls) <= Len(session_list) - 1
        /\ \A i \in 1..Len(open_calls) : open_calls[i] <= Len(session_list) - 1
        /\ error.type # "IndexError"

\* C8: at most one session document is open at any point of a run, and
\* open_kml_session_file is called only when no document is open.
C8_AtMostOneOpenDocument ==
    /\ [](Cardinality(open_handles) <= 1)
    /\ [][StartSession => open_handles = {}]_vars

\* C8 witness: the second document is open, the first having been closed
C8_Witness ==
    /\ open_calls = <<1, 2>>
    /\ open_handles = {2}
    /\ files[1].footer

\* C9: when a numeric parse error of the validator aborts pass 2, the open
\* document is closed before the error leaves the driver.  Stated as the
\* claim has it; the code has no handler and leaves the handle open.
C9_ParseAbortReleasesDocument ==
    (pc = "aborted" /\ error = [type |-> "ValueError", in |-> "generate_kml_coordinate_string"])
        => open_handles = {}

\* what the code does there: the handle of the session being written stays open
C9_ParseAbortLeavesDocumentOpen ==
    (pc = "aborted" /\ error.in = "generate_kml_coordinate_string")
        => (open_handles = {kml_file} /\ ~files[kml_file].footer)

\* a text that is non-blank and not the text of a number
Malformed(text) == ~Blank(text) /\ ~FloatParses(text)

\* the row has a malformed fix quality, satellite count or altitude
HasMalformedNumeric(r) ==
    Malformed(r.fix_quality) \/ Malformed(r.num_sats) \/ Malformed(r.alt)

\* C10: every row with a malformed fix quality, satellite count or altitude
\* aborts the run; the validator never returns for such a row, whatever its
\* other columns hold.  Stated as the claim has it; a row that an earlier rule
\* rejects is returned as rejected before the malformed column is parsed.
C10_MalformedRowAlwaysAborts ==
    pc = "close_check" => ~HasMalformedNumeric(csv_row)

\* validation, applied in order, reaches a conversion that fails
ReachesFailingParse(r) ==
    /\ ~Blank(r.fix_quality) /\ ~Blank(r.num_sats) /\ ~Blank(r.date_and_time)
    /\ \/ ~IntParses(r.fix_quality)
       \/ /\ IntParses(r.fix_quality)
          /\ IntOf(r.fix_quality) >= min_fix_quality
          /\ \/ ~IntParses(r.num_sats)
             \/ /\ IntParses(r.num_sats)
                /\ IntOf(r.num_sats) >= min_satellites
                /\ ~Blank(r.lat) /\ ~Blank(r.lon) /\ ~Blank(r.alt)
                /\ ~FloatParses(r.alt)

\* C10 amended: a row aborts the run with ValueError exactly when validation,
\* applied in order, reaches a conversion that fails: the three first columns
\* are non-blank and the fix quality is no integer text, or the fix quality
\* meets its minimum and the satellite count is no integer text, or both
\* minima are met, latitude, longitude and altitude are non-blank and the
\* altitude is no float text.  No such row is returned as rejected; every
\* other row is returned, malformed columns or not.
C10_AbortsExactlyWhenAParseFails ==
    /\ pc = "close_check" => ~ReachesFailingParse(csv_row)
    /\ (pc = "aborted" /\ error.in = "generate_kml_coordinate_string") =>
          (ReachesFailingParse(csv_row) /\ error.type = "ValueError")

\* the exceptions that end a run: a session time or a validated column that
\* does not parse, the subscript past the final entry, the zero divisor
AbortCauses ==
    pc = "aborted" =>
        error \in {[type |-> "ValueError", in |-> "get_session_list"],
                   [type |-> "ValueError", in |-> "generate_kml_coordinate_string"],
                   [type |-> "IndexError", in |-> "convert_userdatalog_csv_to_kml"],
                   [type |-> "ZeroDivisionError", in |-> "convert_userdatalog_csv_to_kml"]}

\* C10 witness: the run aborted on a satellite count that is no integer text,
\* on a row whose fix quality meets its minimum
C10_Witness ==
    /\ pc = "aborted"
    /\ error = [type |-> "ValueError", in |-> "generate_kml_coordinate_string"]
    /\ csv_row.fix_quality = "1"
    /\ csv_row.num_sats = "1.5"

\* C10 second case reached: a row with a malformed fix quality and a blank
\* satellite count was returned as rejected
C10_MalformedRowRejected ==
    /\ pc = "close_check"
    /\ kml_string = ReturnNone
    /\ csv_row.fix_quality = "x"
    /\ csv_row.num_sats = ""

\* the validator has returned for the current row and the driver has acted on it
RowValidated == pc \in {"close_check", "closing", "discard_check"}

\* the validator raised on the current row
ValidatorRaised == pc = "aborted" /\ error.in = "generate_kml_coordinate_string"

\* the row's fix quality is an integer text below the configured minimum
FixQualityBelowMinimum(r) ==
    IntParses(r.fix_quality) /\ IntOf(r.fix_quality) < min_fix_quality

\* C11: with the minimum fix quality of 1, a row whose fix quality is 0 is
\* returned as rejected (no record, no exception), whatever its other columns
\* hold, blank or malformed ones included.
C11_FixQualityZeroRejected ==
    /\ (RowValidated /\ FixQualityBelowMinimum(csv_row)) => kml_string = ReturnNone
    /\ ValidatorRaised => ~FixQualityBelowMinimum(csv_row)
    /\ min_fix_quality = 1 /\ IntOf("0") = 0

\* C11 witness: a row with fix quality 0, a malformed satellite count and a
\* malformed altitude has been rejected and counted
C11_Witness ==
    /\ pc = "close_check"
    /\ csv_row.fix_quality = "0"
    /\ csv_row.num_sats = "x"
    /\ csv_row.alt = "x"
    /\ kml_string = ReturnNone
    /\ csv_rows_rejected = 1

\* C11 second case reached: fix quality 0 with every other column blank
C11_BlankRowRejected ==
    /\ pc = "close_check"
    /\ csv_row.fix_quality = "0"
    /\ csv_row.num_sats = "" /\ csv_row.date_and_time = "" /\ csv_row.alt = ""
    /\ kml_string = ReturnNone

\* the coordinate lines of document n in directory fs, none when it is absent
LinesOf(fs, n) == IF n \in DOMAIN fs THEN fs[n].lines ELSE <<>>

\* the six columns are non-blank and both quality figures meet their minimum
Qualified(r) ==
    /\ ~Blank(r.fix_quality) /\ ~Blank(r.num_sats) /\ ~Blank(r.date_and_time)
    /\ ~Blank(r.lat) /\ ~Blank(r.lon) /\ ~Blank(r.alt)
    /\ IntParses(r.fix_quality) /\ IntOf(r.fix_quality) >= min_fix_quality
    /\ IntParses(r.num_sats) /\ IntOf(r.num_sats) >= min_satellites

\* C12: every coordinate record appended to a document comes from a row in
\* which fix quality, satellite count, timestamp, latitude, longitude and
\* altitude are non-blank and both quality figures meet their minimum; a row
\* failing any of these is never written.
C12_OnlyQualifiedRowsWritten ==
    /\ [][(\E n \in DOMAIN files' : LinesOf(files', n) # LinesOf(files, n)) =>
            /\ pc = "validate"
            /\ Qualified(csv_row)
            /\ LinesOf(files', kml_file) =
                  Append(LinesOf(files, kml_file), <<csv_row.lon, csv_row.lat, kml_string'.value[3]>>)
            /\ \A n \in DOMAIN files' : n # kml_file => LinesOf(files', n) = LinesOf(files, n)]_vars
    /\ [](\A n \in DOMAIN files : \A j \in 1..Len(files[n].lines) :
            \E i \in 1..Len(csv_input) :
                /\ Qualified(csv_input[i])
                /\ files[n].lines[j][1] = csv_input[i].lon
                /\ files[n].lines[j][2] = csv_input[i].lat)

\* C12 witness: a record has just been appended for a row with exactly the
\* minimum fix quality and satellite count
C12_Witness ==
    /\ pc = "close_check"
    /\ kml_string.tag = "str"
    /\ csv_row.fix_quality = "1" /\ csv_row.num_sats = "4"
    /\ Len(LinesOf(files, kml_file)) >= 1
    /\ kml_rows_written_total >= 1

\* C12 second case reached: a row with 3 satellites and every column filled
\* was rejected and nothing was written
C12_ThreeSatellitesRejected ==
    /\ pc = "close_check"
    /\ csv_row.fix_quality = "1" /\ csv_row.num_sats = "3"
    /\ csv_row.date_and_time = "t" /\ csv_row.lat = "a1" /\ csv_row.lon = "o1"
    /\ csv_row.alt = "100"
    /\ kml_string = ReturnNone
    /\ LinesOf(files, kml_file) = <<>>

\* the positions (1-based) of the rows the validator rejects and accepts
RejectedPositions ==
    {i \in 1..Len(csv_input) : generate_kml_coordinate_string(csv_input[i]) = ReturnNone}
AcceptedPositions == {i \in 1..Len(csv_input) : Accepted(csv_input[i])}

\* the number of coordinate lines in the documents 1..n that exist
RECURSIVE LinesInDocuments(_)
LinesInDocuments(n) ==
    IF n = 0 THEN 0 ELSE Len(DocumentLines(n)) + LinesInDocuments(n - 1)

\* C13: at the end of a completed run rows read is the number of input rows,
\* rows rejected the number of rows the validator rejected, records written
\* the number it accepted, so that rows read = rejected + written, and
\* records written is the number of coordinate lines in the documents that
\* exist; the 10-row scenario reports 10, 2, 2 sessions, 2 written, 8 records.
C13_ReportedTotals ==
    pc = "done" =>
        /\ csv_row_index = Len(csv_input)
        /\ csv_rows_rejected = Cardinality(RejectedPositions)
        /\ kml_rows_written_total = Cardinality(AcceptedPositions)
        /\ csv_row_index = csv_rows_rejected + kml_rows_written_total
        /\ DOMAIN files \subseteq 1..Len(csv_input)
        /\ kml_rows_written_total = LinesInDocuments(Len(csv_input))
        /\ csv_input = ScenarioLog =>
              /\ session_list = <<0, 5, 10>>
              /\ csv_row_index = 10 /\ csv_rows_rejected = 2
              /\ sessions_detected = 2 /\ sessions_written = 2
              /\ kml_rows_written_total = 8
              /\ Len(DocumentLines(1)) = 3 /\ Len(DocumentLines(2)) = 5

\* C13 witness: the 10-row scenario has completed with 2 rows rejected and 8
\* records written
C13_Witness ==
    /\ pc = "done"
    /\ csv_input = ScenarioLog
    /\ csv_rows_rejected = 2
    /\ kml_rows_written_total = 8

\* C13 second case reached: a completed run with a discarded session, rejected
\* and accepted rows
C13_WithDiscardedSession ==
    /\ pc = "done"
    /\ empty_session_count = 1
    /\ csv_rows_rejected = 2
    /\ kml_rows_written_total = 1

\* the session numbers a run can use
SessionNumbers == 1..(Len(csv_input) + 1)

\* document n moves one stage in this step
Created(n) == n \notin DOMAIN files /\ n \in DOMAIN files'
Appended(n) == n \in DOMAIN files /\ n \in DOMAIN files' /\ files'[n].lines # files[n].lines
FooterWritten(n) == n \in DOMAIN files /\ n \in DOMAIN files' /\ ~files[n].footer /\ files'[n].footer
Released(n) == n \in open_handles /\ n \notin open_handles'
Deleted(n) == n \in DOMAIN files /\ n \notin DOMAIN files'
Opened(n) == n \notin open_handles /\ n \in open_handles'

\* C14: for every session document the operations come in the order create
\* and write header, record appends, write footer, release the handle, and
\* only then, and only with zero records, delete; no record is appended
\* after the footer and no document is deleted while open.
C14_DocumentLifecycle ==
    /\ [][\A n \in SessionNumbers :
            /\ Created(n) =>
                  /\ Opened(n)
                  /\ files'[n].header = n /\ files'[n].lines = <<>> /\ ~files'[n].footer
            /\ Opened(n) => (Created(n) /\ \A i \in 1..Len(open_calls) : open_calls[i] # n)
            /\ Appended(n) =>
                  /\ n \in open_handles /\ ~files[n].footer
                  /\ n \in open_handles' /\ ~files'[n].footer
                  /\ files'[n].lines = Append(files[n].lines, kml_string'.value)
            /\ FooterWritten(n) =>
                  /\ n \in open_handles /\ n \in open_handles'
                  /\ files'[n].lines = files[n].lines
            /\ Released(n) => (n \in DOMAIN files /\ files[n].footer /\ files' = files)
            /\ Deleted(n) =>
                  /\ n \notin open_handles
                  /\ files[n].footer
                  /\ files[n].lines = <<>>
            /\ (n \in DOMAIN files /\ n \in DOMAIN files' /\ files[n].footer) =>
                  files'[n] = files[n]]_vars
    /\ [](\A n \in SessionNumbers :
            /\ n \in open_handles => n \in DOMAIN files
            /\ (n \in DOMAIN files /\ n \notin open_handles) => files[n].footer)

\* C14 witness: the first document went from creation to deletion with no
\* record, the second holds a record and its footer and has been released
C14_Witness ==
    /\ open_calls = <<1, 2>>
    /\ 1 \notin DOMAIN files
    /\ 2 \in DOMAIN files
    /\ Len(files[2].lines) >= 1
    /\ files[2].footer
    /\ open_handles = {}

\* C14 intermediate stage reached: the footer is written and the handle not
\* yet released
C14_FooterBeforeRelease ==
    /\ pc = "closing"
    /\ kml_file \in open_handles
    /\ files[kml_file].footer

\* a non-empty log with a session time in every row and well-typed columns
CleanLog == Len(csv_input) >= 1 /\ NoBlankSessionTime /\ AllWellTyped

\* the loop of pass 2 has taken the last row and found no more
EndOfScan == (pc = "convert" /\ reader = Len(csv_input)) \/ pc = "done"

\* C15: for a non-empty log with a session time in every row and well-typed
\* numeric columns the scan of pass 2 reaches the end of input, and then every
\* opened document has been closed, session_index equals sessions_detected
\* and exactly one document was opened per detected session; the last one is
\* closed while the last row is processed (row index + 1 = final entry).
C15_ScanEndsWithAllSessionsClosed ==
    /\ [](CleanLog /\ EndOfScan =>
            /\ open_handles = {}
            /\ \A n \in DOMAIN files : files[n].footer
            /\ session_index = sessions_detected
            /\ sessions_detected = Len(session_list) - 1
            /\ open_calls = [k \in 1..sessions_detected |-> k]
            /\ csv_row_index = session_list[Len(session_list)])
    /\ [][(CleanLog /\ CloseHandle /\ session_index + 1 = sessions_detected) =>
            (reader = Len(csv_input) /\ csv_row_index + 1 = session_list[Len(session_list)])]_vars
    /\ (CleanLog ~> pc = "done")

\* C15 witness: the scan of a three-row log of two sessions has ended
C15_Witness ==
    /\ CleanLog
    /\ pc = "convert" /\ reader = Len(csv_input)
    /\ Len(csv_input) = 3
    /\ open_calls = <<1, 2>>
    /\ session_index = 2
    /\ open_handles = {}

\* C16: documents are opened with the numbers 1, 2, 3, ... in this order, the
\* k-th session opened getting number k = sessions opened so far + 1 whether
\* or not earlier sessions were discarded; a number is never used twice in a
\* run, so no document overwrites the document of an earlier session.
C16_SessionNumbersInOrder ==
    /\ [](\A k \in 1..Len(open_calls) : open_calls[k] = k)
    /\ [](pc \in {"validate", "close_check", "closing", "discard_check"} =>
            (kml_file = session_index + 1 /\ kml_output_filename = session_index + 1
             /\ Len(open_calls) = session_index + 1))
    /\ [][StartSession =>
            /\ kml_file' = Len(open_calls) + 1
            /\ csv_row_index = At(session_list, kml_file' - 1)
            /\ kml_file' \notin DOMAIN files
            /\ \A n \in DOMAIN files : files'[n] = files[n]]_vars

\* C16 witness: the first session was discarded and the second document was
\* opened with number 2
C16_Witness ==
    /\ open_calls = <<1, 2>>
    /\ empty_session_count = 1
    /\ 1 \notin DOMAIN files
    /\ kml_file = 2
    /\ 2 \in open_handles

\* the driver has just appended the record of the current row
JustAppended == pc = "close_check" /\ kml_string.tag = "str"

\* C17: whenever the driver appends a record a document is open (the handle
\* is neither unset nor closed) and the row lies inside the session being
\* written: session_list[session_index] <= row index <
\* session_list[session_index + 1].  Stated as the claim has it; with a
\* blank-time row in the log a record is appended at the final entry.
C17_AppendsInsideOpenSession ==
    JustAppended =>
        /\ kml_file # NoFile
        /\ kml_file \in open_handles
        /\ HasIndex(session_list, session_index + 1)
        /\ At(session_list, session_index) <= csv_row_index
        /\ csv_row_index < At(session_list, session_index + 1)

\* what the code does: every append goes to an open handle whose document
\* has no footer yet, and on a log without blank session times the row lies
\* inside the session being written
C17_AppendsToOpenHandle ==
    JustAppended =>
        /\ kml_file # NoFile
        /\ kml_file \in open_handles
        /\ ~files[kml_file].footer
        /\ files[kml_file].lines[Len(files[kml_file].lines)] = kml_string.value
        /\ At(session_list, session_index) <= csv_row_index
        /\ NoBlankSessionTime =>
              /\ HasIndex(session_list, session_index + 1)
              /\ csv_row_index < At(session_list, session_index + 1)

\* the failing case reached: a record appended to the document opened at the
\* final entry of session_list
C17_AppendAtFinalEntry ==
    /\ JustAppended
    /\ session_index = Len(session_list) - 1
    /\ csv_row_index = session_list[Len(session_list)]

====
